---- MODULE Spec2Model ----
(***************************************************************************)
(* Model of spotify-playlist-import.py: playlist loading, per-track        *)
(* metadata extraction, catalog search and match selection, and playlist   *)
(* publication.                                                            *)
(*                                                                         *)
(* Python strings are sequences of one-character strings.  An optional     *)
(* value (a dict key that may be absent, a value that may be None/False)   *)
(* is a sequence of length 0 or 1.                                         *)
(***************************************************************************)
EXTENDS Integers, Sequences, FiniteSets, TLC

VARIABLES
    pc,              \* position of the run: the statement of main executed next
    tracks,          \* the list of track dicts built by load_playlist_file
    try_read_tags,   \* data['read_id3']
    idx,             \* 1-based index of the track the loop of main handles next
    output,          \* the per-track blocks printed so far, in order
    calls,           \* the remote calls issued so far, in order
    spotify_tracks,  \* the matched ids collected after the loop
    pos,             \* number of ids already sent to user_playlist_add_tracks
    outcome,         \* the terminal message of the run
    exit_code,       \* the exit status of the process, -1 while it runs
    uncaught,        \* the exception that escaped main, "" if none
    q_title,         \* resolver under test: the query title
    q_results,       \* resolver under test: what sp.search returned
    q_answer,        \* resolver under test: <<>> or <<the returned value>>
    f_name,          \* heuristic under test: the file name
    f_guess          \* heuristic under test: <<>> or <<the returned value>>

vars == <<pc, tracks, try_read_tags, idx, output, calls, spotify_tracks,
          pos, outcome, exit_code, uncaught,
          q_title, q_results, q_answer, f_name, f_guess>>

(* ------------------------------ bounds --------------------------------- *)

MaxTitleLen == 2
MaxResults == 2
MaxNameLen == 5
MaxTracks == 2
MaxHits == 2
MaxIds == 201

(* -------------------------- program constants -------------------------- *)

BatchSize == 100

(* ------------------------------ strings -------------------------------- *)

Min(x, y) == IF x < y THEN x ELSE y

SeqsUpTo(S, n) == UNION {[1..k -> S] : k \in 0..n}

Whitespace == {" "}

RECURSIVE lstrip(_)
lstrip(s) ==
    IF s # <<>> /\ Head(s) \in Whitespace THEN lstrip(Tail(s)) ELSE s

RECURSIVE rstrip(_)
rstrip(s) ==
    IF s # <<>> /\ s[Len(s)] \in Whitespace
    THEN rstrip(SubSeq(s, 1, Len(s) - 1)) ELSE s

strip(s) == rstrip(lstrip(s))

\* str.rfind: the last (1-based) index of ch in s, 0 when ch does not occur
rfind(s, ch) ==
    LET I == {i \in 1..Len(s) : s[i] = ch}
    IN  IF I = {} THEN 0 ELSE CHOOSE i \in I : \A j \in I : j <= i

\* str.find from a 1-based start index, 0 when ch does not occur
find(s, ch, from) ==
    LET I == {i \in from..Len(s) : s[i] = ch}
    IN  IF I = {} THEN 0 ELSE CHOOSE i \in I : \A j \in I : i <= j

\* str.split(sep) for a one-character separator: every occurrence splits
RECURSIVE split(_, _)
split(s, sep) ==
    LET i == find(s, sep, 1)
    IN  IF i = 0 THEN <<s>>
        ELSE <<SubSeq(s, 1, i - 1)>> \o split(SubSeq(s, i + 1, Len(s)), sep)

basename(p) == SubSeq(p, rfind(p, "/") + 1, Len(p))

\* os.path.splitext: split at the last dot of the last path component,
\* unless only dots precede it in that component
splitext(p) ==
    LET sepIndex == rfind(p, "/")
        dotIndex == rfind(p, ".")
    IN  IF dotIndex > sepIndex
           /\ \E k \in (sepIndex + 1)..(dotIndex - 1) : p[k] # "."
        THEN <<SubSeq(p, 1, dotIndex - 1), SubSeq(p, dotIndex, Len(p))>>
        ELSE <<p, <<>>>>

(* ------------------- difflib.SequenceMatcher.ratio --------------------- *)
(* SequenceMatcher(None, a, b): no junk function.  Its popularity heuristic  *)
(* only touches second sequences of 200 or more elements, far above the      *)
(* title lengths explored here.                                              *)

\* length of the common run of a from i and b from j, inside a[..ahi], b[..bhi]
RECURSIVE RunLen(_, _, _, _, _, _)
RunLen(a, b, i, j, ahi, bhi) ==
    IF i <= ahi /\ j <= bhi /\ a[i] = b[j]
    THEN 1 + RunLen(a, b, i + 1, j + 1, ahi, bhi)
    ELSE 0

\* the candidate blocks <<i, j, k>>: a[i..i+k-1] = b[j..j+k-1], k maximal from
\* <<i, j>>, over the inclusive 1-based ranges alo..ahi and blo..bhi
Blocks(a, b, alo, ahi, blo, bhi) ==
    {<<p[1], p[2], RunLen(a, b, p[1], p[2], ahi, bhi)>> :
        p \in (alo..ahi) \X (blo..bhi)}

\* the order in which find_longest_match prefers block t to block u: longer,
\* then earlier in a, then earlier in b
Preferred(t, u) ==
    \/ t[3] > u[3]
    \/ t[3] = u[3] /\ t[1] < u[1]
    \/ t[3] = u[3] /\ t[1] = u[1] /\ t[2] <= u[2]

Longest(T) == CHOOSE t \in T : \A u \in T : Preferred(t, u)

\* find_longest_match without junk; k = 0 when nothing matches
find_longest_match(a, b, alo, ahi, blo, bhi) ==
    IF alo > ahi \/ blo > bhi THEN <<alo, blo, 0>>
    ELSE Longest(Blocks(a, b, alo, ahi, blo, bhi))

\* get_matching_blocks: total size of the blocks found by recursing to the
\* left and to the right of the longest match m
RECURSIVE matches(_, _, _, _, _, _)
RECURSIVE matches_around(_, _, _, _, _, _, _)
matches_around(a, b, alo, ahi, blo, bhi, m) ==
    IF m[3] = 0 THEN 0
    ELSE m[3]
         + matches(a, b, alo, m[1] - 1, blo, m[2] - 1)
         + matches(a, b, m[1] + m[3], ahi, m[2] + m[3], bhi)

matches(a, b, alo, ahi, blo, bhi) ==
    IF alo > ahi \/ blo > bhi THEN 0
    ELSE matches_around(a, b, alo, ahi, blo, bhi,
                        find_longest_match(a, b, alo, ahi, blo, bhi))

\* ratio() = 2.0 * matches / (len(a) + len(b)), and 1.0 when both are empty;
\* kept as the exact fraction <<numerator, denominator>>
how_similar(a, b) ==
    LET length == Len(a) + Len(b)
    IN  IF length = 0 THEN <<1, 1>>
        ELSE <<2 * matches(a, b, 1, Len(a), 1, Len(b)), length>>

RankEq(r, s) == r[1] * s[2] = s[1] * r[2]
RankGt(r, s) == r[1] * s[2] > s[1] * r[2]

One == <<1, 1>>
spotify_match_threshold == <<1, 2>>

(* --------------------------- match resolver ---------------------------- *)

\* variant: the loop stops at the first result above the threshold
IsPerfectMut(rank) == RankGt(rank, spotify_match_threshold)
\* the loop of lines 101-105 stops at a result whose rank is 1.0
IsPerfect(rank) == RankEq(rank, One)

\* variant: a rank equal to the threshold is accepted
AboveThresholdMut(rank, threshold) == ~RankGt(threshold, rank)
\* the acceptance test of line 107
AboveThreshold(rank, threshold) == RankGt(rank, threshold)

\* sorted(..., key=rank, reverse=True): stable, equal ranks keep their order
RECURSIVE InsertByRank(_, _)
InsertByRank(sorted, x) ==
    IF sorted = <<>> THEN <<x>>
    ELSE IF RankGt(x.rank, Head(sorted).rank) THEN <<x>> \o sorted
    ELSE <<Head(sorted)>> \o InsertByRank(Tail(sorted), x)

RECURSIVE SortedByRank(_)
SortedByRank(s) ==
    IF s = <<>> THEN <<>>
    ELSE InsertByRank(SortedByRank(SubSeq(s, 1, Len(s) - 1)), s[Len(s)])

NoMatch == [found |-> FALSE, id |-> 0, name |-> <<>>, artist |-> <<>>]

MatchOf(r) == [found |-> TRUE, id |-> r.id, name |-> r.name, artist |-> r.artist]

\* lines 101-102: every result with its rank
Ranked(items, track_name) ==
    [k \in 1..Len(items) |->
        [id |-> items[k].id, name |-> items[k].name, artist |-> items[k].artist,
         rank |-> how_similar(track_name, items[k].name)]]

\* lines 106-109: the first of the sorted results, when it is above the threshold
TopResult(spotify_results_sorted, threshold) ==
    IF Len(spotify_results_sorted) > 0
       /\ AboveThreshold(spotify_results_sorted[1].rank, threshold)
    THEN MatchOf(spotify_results_sorted[1])
    ELSE NoMatch

\* lines 101-109: the first result of rank 1.0, else the top sorted result
SelectRanked(ranked, threshold) ==
    IF \E k \in 1..Len(ranked) : IsPerfect(ranked[k].rank)
    THEN MatchOf(ranked[CHOOSE k \in 1..Len(ranked) :
                          /\ IsPerfect(ranked[k].rank)
                          /\ \A m \in 1..(k - 1) : ~IsPerfect(ranked[m].rank)])
    ELSE TopResult(SortedByRank(ranked), threshold)

\* _select_result_from_spotify_search, given what sp.search returned
select_result_from_spotify_search(items, track_name, threshold) ==
    IF Len(items) > 0
    THEN SelectRanked(Ranked(items, track_name), threshold)
    ELSE NoMatch

(* -------------------------- filename heuristic ------------------------- *)

NoGuess == [found |-> FALSE, artist |-> <<>>, name |-> <<>>]

guess_missing_track_info(file_name) ==
    LET filename        == basename(file_name)
        filename_no_ext == splitext(filename)[1]
        track_uri_parts == split(filename_no_ext, "-")
    IN  IF Len(track_uri_parts) > 1
        THEN [found |-> TRUE, artist |-> strip(track_uri_parts[1]),
              name |-> strip(track_uri_parts[2])]
        ELSE NoGuess

(* ------------------------------ tag reader ----------------------------- *)

None == <<>>
Some(v) == <<v>>

\* what eyed3.load can do with a path: raise, return None, or return an audio
\* object whose tag is None or carries an artist and a title, each None or a
\* string
TagValues == {None, Some(<<>>), Some(<<"a">>)}

LoadOutcomes ==
    {[kind |-> "raise", has_tag |-> FALSE, artist |-> None, title |-> None],
     [kind |-> "none", has_tag |-> FALSE, artist |-> None, title |-> None],
     [kind |-> "audio", has_tag |-> FALSE, artist |-> None, title |-> None]}
    \cup {[kind |-> "audio", has_tag |-> TRUE, artist |-> a, title |-> t] :
            a \in TagValues, t \in TagValues}

\* read_id3_tags: raised names the exception that escapes, data is tag_data
read_id3_tags(lo) ==
    IF lo.kind = "raise" THEN [raised |-> "", data |-> None]
    ELSE IF lo.kind = "none" THEN [raised |-> "AttributeError", data |-> None]
    ELSE IF lo.has_tag /\ lo.artist # None /\ lo.title # None
    THEN [raised |-> "",
          data |-> Some([artist |-> lo.artist[1], name |-> lo.title[1]])]
    ELSE [raised |-> "", data |-> None]

(* ------------------------------- resolver ------------------------------ *)

\* the catalog entries sp.search returns for a list of titles, ids by position
Catalog(names) ==
    [k \in 1..Len(names) |-> [id |-> k, name |-> names[k], artist |-> <<"x">>]]

HitNames == {<<"a">>, <<"a", "b">>}

SearchOutcomes ==
    {[raised |-> TRUE, items |-> <<>>]}
    \cup {[raised |-> FALSE, items |-> Catalog(n)] : n \in SeqsUpTo(HitNames, MaxHits)}

\* find_spotify_track: one search when the track has an artist and a name
find_spotify_track(track, so) ==
    IF track.artist # None /\ track.name # None
    THEN LET spotify_search_string == track.artist[1] \o <<" ">> \o track.name[1]
         IN  IF so.raised
             THEN [raised |-> "SpotifyException", q |-> Some(spotify_search_string),
                   result |-> NoMatch]
             ELSE [raised |-> "", q |-> Some(spotify_search_string),
                   result |-> select_result_from_spotify_search(
                                  so.items, track.name[1], spotify_match_threshold)]
    ELSE [raised |-> "", q |-> None, result |-> NoMatch]

(* ------------------------------- reporting ----------------------------- *)

\* format_track_info: the four lines of the block; track['source'] of a dict
\* without that key raises KeyError
format_track_info(k, track) ==
    IF track.source = ""
    THEN [raised |-> "KeyError", block |-> None]
    ELSE [raised |-> "",
          block |-> Some(
            [track   |-> k,
             ident   |-> IF track.source # "itunes" THEN track.path[1]
                         ELSE track.artist[1] \o <<" ", "-", " ">> \o track.name[1],
             id3     |-> IF track.source = "id3"
                         THEN Some(<<track.artist[1], track.name[1]>>) ELSE None,
             guess   |-> IF track.source = "id3" THEN "Not required"
                         ELSE IF track.source = "guess" THEN "data" ELSE "None",
             spotify |-> IF track.spotify_data[1].found
                         THEN Some(track.spotify_data[1]) ELSE None])]

(* ----------------------------- playlist file --------------------------- *)

NewTrack(path) ==
    [path |-> Some(path), artist |-> None, name |-> None, source |-> "",
     spotify_data |-> None]

\* _parse_m3u: keep the lines that are not blank and do not start with '#'
RECURSIVE parse_m3u(_)
parse_m3u(lines) ==
    IF lines = <<>> THEN <<>>
    ELSE LET line == Head(lines)
         IN  IF strip(line) # <<>> /\ ~(line # <<>> /\ line[1] = "#")
             THEN <<NewTrack(strip(line))>> \o parse_m3u(Tail(lines))
             ELSE parse_m3u(Tail(lines))

\* _parse_xml: one itunes track per entry of playlist['Tracks']
parse_xml(metas) ==
    [k \in 1..Len(metas) |->
        [path |-> None,
         artist |-> Some(IF metas[k].Artist # None THEN metas[k].Artist[1] ELSE <<>>),
         name |-> Some(IF metas[k].Name # None THEN metas[k].Name[1] ELSE <<>>),
         source |-> "itunes", spotify_data |-> None]]

RawLines == {<<"#", "a">>, <<" ">>, <<"a", "-", "b">>, <<" ", "a", "b", " ">>}

TrackMetas == [Artist : {None, Some(<<"a">>)}, Name : {None, Some(<<"a">>)}]

(* ------------------------------ process exit --------------------------- *)

\* the module calls main() and drops its return value: a run that returns
\* from main ends with status 0
exit_status_of_main(ret) == 0

\* sys.exit(n)
sys_exit(n) == n

\* an exception that leaves main ends the interpreter with status 1
exit_status_of_traceback == 1

(* ------------------------------- the run ------------------------------- *)

Idle == /\ q_title = <<>> /\ q_results = <<>> /\ q_answer = None
        /\ f_name = <<>> /\ f_guess = None

Init ==
    /\ pc = "main"
    /\ tracks = <<>>
    /\ try_read_tags = FALSE
    /\ idx = 1
    /\ output = <<>>
    /\ calls = <<>>
    /\ spotify_tracks = <<>>
    /\ pos = 0
    /\ outcome = ""
    /\ exit_code = -1
    /\ uncaught = ""
    /\ Idle

Call(op, k, q, ids) == [op |-> op, track |-> k, q |-> q, ids |-> ids]

\* main returns ret after printing msg
Return(msg, ret) ==
    /\ pc' = "exit"
    /\ outcome' = msg
    /\ exit_code' = exit_status_of_main(ret)
    /\ uncaught' = uncaught

\* sys.exit(n) after printing msg
Exit(msg, n) ==
    /\ pc' = "exit"
    /\ outcome' = msg
    /\ exit_code' = sys_exit(n)
    /\ uncaught' = uncaught

\* the exception exc leaves main
Raise(exc) ==
    /\ pc' = "exit"
    /\ outcome' = "traceback"
    /\ exit_code' = exit_status_of_traceback
    /\ uncaught' = exc

\* main, lines 168-173: init_credentials_manager over the three variables
InitCredentials ==
    /\ pc = "main"
    /\ \E client_id \in BOOLEAN, client_secret \in BOOLEAN, redirect_uri \in BOOLEAN :
          IF ~client_id \/ ~client_secret \/ ~redirect_uri
          THEN Return("missing_config", 1)
          ELSE /\ pc' = "load"
               /\ UNCHANGED <<outcome, exit_code, uncaught>>
    /\ UNCHANGED <<tracks, try_read_tags, idx, output, calls, spotify_tracks, pos,
                   q_title, q_results, q_answer, f_name, f_guess>>

\* main, line 183: load_playlist_file
LoadPlaylist ==
    /\ pc = "load"
    /\ \E file_ext \in {".m3u", ".xml", ".txt"}, readable \in BOOLEAN :
          IF file_ext = ".m3u"
          THEN IF readable
               THEN \E lines \in SeqsUpTo(RawLines, MaxTracks) :
                       /\ tracks' = parse_m3u(lines)
                       /\ try_read_tags' = TRUE
                       /\ pc' = "loop"
                       /\ UNCHANGED <<outcome, exit_code, uncaught>>
               ELSE /\ Exit("parse_error", 1)
                    /\ UNCHANGED <<tracks, try_read_tags>>
          ELSE IF file_ext = ".xml"
          THEN IF readable
               THEN \E metas \in SeqsUpTo(TrackMetas, MaxTracks) :
                       /\ tracks' = parse_xml(metas)
                       /\ try_read_tags' = FALSE
                       /\ pc' = "loop"
                       /\ UNCHANGED <<outcome, exit_code, uncaught>>
               ELSE /\ Exit("parse_error", 1)
                    /\ UNCHANGED <<tracks, try_read_tags>>
          ELSE /\ Exit("unsupported", 1)
               /\ UNCHANGED <<tracks, try_read_tags>>
    /\ UNCHANGED <<idx, output, calls, spotify_tracks, pos,
                   q_title, q_results, q_answer, f_name, f_guess>>

\* lines 190-197: the metadata of one m3u track, given the tag read's result
ExtractMetadata(track, tag_data) ==
    IF tag_data # None
    THEN [track EXCEPT !.artist = Some(tag_data[1].artist),
                       !.name = Some(tag_data[1].name), !.source = "id3"]
    ELSE LET guess_data == guess_missing_track_info(track.path[1])
         IN  IF guess_data.found
             THEN [track EXCEPT !.artist = Some(guess_data.artist),
                                !.name = Some(guess_data.name), !.source = "guess"]
             ELSE track

\* lines 199-200: the track with its search result, and its printed block
ReportTrack(track, q, ft) ==
    [raised |-> ft.raised, track |-> track, q |-> q, block |-> ft.block]

\* line 199: find_spotify_track; an exception of sp.search leaves the loop
SearchTrack(k, track, fs) ==
    IF fs.raised # ""
    THEN [raised |-> fs.raised, track |-> track, q |-> fs.q, block |-> None]
    ELSE ReportTrack([track EXCEPT !.spotify_data = Some(fs.result)], fs.q,
             format_track_info(k, [track EXCEPT !.spotify_data = Some(fs.result)]))

\* lines 199-200 for a track whose metadata is settled
ResolveTrack(k, track, so) == SearchTrack(k, track, find_spotify_track(track, so))

\* lines 190-197: the tag read and the fallback, for an m3u playlist only
ReadTrack(k, track, read_tags, id3, so) ==
    IF ~read_tags THEN ResolveTrack(k, track, so)
    ELSE IF id3.raised # ""
    THEN [raised |-> id3.raised, track |-> track, q |-> None, block |-> None]
    ELSE ResolveTrack(k, ExtractMetadata(track, id3.data), so)

\* lines 190-200: the body of the loop for track k, given what the tag loader
\* and the catalog search do
LoopBody(k, track, read_tags, lo, so) ==
    ReadTrack(k, track, read_tags, read_id3_tags(lo), so)

\* the effect of one iteration r on the run
Iterate(r) ==
    /\ tracks' = [tracks EXCEPT ![idx] = r.track]
    /\ calls' = IF r.q = None THEN calls
                ELSE Append(calls, Call("search", idx, r.q[1], <<>>))
    /\ IF r.raised # ""
       THEN /\ Raise(r.raised)
            /\ UNCHANGED <<output, idx>>
       ELSE /\ output' = Append(output, r.block[1])
            /\ idx' = idx + 1
            /\ UNCHANGED <<pc, outcome, exit_code, uncaught>>

\* main, lines 189-200: one iteration of the loop over the tracks
ProcessTrack ==
    /\ pc = "loop"
    /\ idx <= Len(tracks)
    /\ \E lo \in LoadOutcomes, so \in SearchOutcomes :
          Iterate(LoopBody(idx, tracks[idx], try_read_tags, lo, so))
    /\ UNCHANGED <<try_read_tags, spotify_tracks, pos,
                   q_title, q_results, q_answer, f_name, f_guess>>

\* line 202: the ids of the tracks that have a match, in track order
RECURSIVE MatchedIds(_)
MatchedIds(ts) ==
    IF ts = <<>> THEN <<>>
    ELSE (IF Head(ts).spotify_data # None /\ Head(ts).spotify_data[1].found
          THEN <<Head(ts).spotify_data[1].id>> ELSE <<>>) \o MatchedIds(Tail(ts))

\* variant: the empty list is not detected
NothingMatchedMut(ids) == Len(ids) < 0
\* line 206
NothingMatched(ids) == Len(ids) < 1

\* main, lines 202-211: collect the matched ids, stop when there are none
CollectMatches ==
    /\ pc = "loop"
    /\ idx > Len(tracks)
    /\ spotify_tracks' = MatchedIds(tracks)
    /\ IF NothingMatched(spotify_tracks')
       THEN Return("no_match", 1)
       ELSE /\ pc' = "token"
            /\ UNCHANGED <<outcome, exit_code, uncaught>>
    /\ UNCHANGED <<tracks, try_read_tags, idx, output, calls, pos,
                   q_title, q_results, q_answer, f_name, f_guess>>

\* main, lines 213-215 and 232-233: util.prompt_for_user_token
PromptForUserToken ==
    /\ pc = "token"
    /\ calls' = Append(calls, Call("token", 0, <<>>, <<>>))
    /\ \E token \in BOOLEAN :
          IF token
          THEN /\ pc' = "create"
               /\ UNCHANGED <<outcome, exit_code, uncaught>>
          ELSE Return("no_token", 0)
    /\ UNCHANGED <<tracks, try_read_tags, idx, output, spotify_tracks, pos,
                   q_title, q_results, q_answer, f_name, f_guess>>

\* main, lines 217-219 and 228-229: sp.user_playlist_create
CreatePlaylist ==
    /\ pc = "create"
    /\ calls' = Append(calls, Call("create", 0, <<>>, <<>>))
    /\ \E ok \in BOOLEAN :
          IF ok
          THEN /\ pc' = "add"
               /\ UNCHANGED <<outcome, exit_code, uncaught>>
          ELSE Return("spotify_error", 0)
    /\ UNCHANGED <<tracks, try_read_tags, idx, output, spotify_tracks, pos,
                   q_title, q_results, q_answer, f_name, f_guess>>

\* variant: a slice one element short
ChunkMut(seq, at, size) == SubSeq(seq, at + 1, Min(at + size - 1, Len(seq)))
\* chunker, line 222: seq[pos:pos + size], pos counted from 0
Chunk(seq, at, size) == SubSeq(seq, at + 1, Min(at + size, Len(seq)))

\* lines 220-227: the ids the next user_playlist_add_tracks call carries
NextBatch(seq, at) ==
    IF Len(seq) > BatchSize THEN Chunk(seq, at, BatchSize) ELSE seq

\* main, lines 220-231: one sp.user_playlist_add_tracks call
AddTracks ==
    /\ pc = "add"
    /\ LET batch == NextBatch(spotify_tracks, pos)
           sent  == IF Len(spotify_tracks) > BatchSize THEN pos + BatchSize
                    ELSE Len(spotify_tracks)
       IN  /\ calls' = Append(calls, Call("add", 0, <<>>, batch))
           /\ \E ok \in BOOLEAN :
                 IF ~ok THEN /\ Return("spotify_error", 0)
                             /\ pos' = pos
                 ELSE IF sent >= Len(spotify_tracks)
                 THEN /\ Return("done", 0)
                      /\ pos' = sent
                 ELSE /\ pos' = sent
                      /\ UNCHANGED <<pc, outcome, exit_code, uncaught>>
    /\ UNCHANGED <<tracks, try_read_tags, idx, output, spotify_tracks,
                   q_title, q_results, q_answer, f_name, f_guess>>

Next ==
    \/ InitCredentials
    \/ LoadPlaylist
    \/ ProcessTrack
    \/ CollectMatches
    \/ PromptForUserToken
    \/ CreatePlaylist
    \/ AddTracks

Spec == Init /\ [][Next]_vars

(* ---------------------- the match resolver alone ----------------------- *)

Titles == SeqsUpTo({"a", "b"}, MaxTitleLen)

InitResolve ==
    /\ pc = "resolve"
    /\ tracks = <<>> /\ try_read_tags = FALSE /\ idx = 1 /\ output = <<>>
    /\ calls = <<>> /\ spotify_tracks = <<>> /\ pos = 0 /\ outcome = ""
    /\ exit_code = -1 /\ uncaught = ""
    /\ q_title \in Titles
    /\ q_results \in {Catalog(n) : n \in SeqsUpTo(Titles, MaxResults)}
    /\ q_answer = None
    /\ f_name = <<>> /\ f_guess = None

\* _select_result_from_spotify_search applied to the results of one search
Resolve ==
    /\ pc = "resolve"
    /\ pc' = "resolved"
    /\ q_answer' = Some(select_result_from_spotify_search(
                            q_results, q_title, spotify_match_threshold))
    /\ UNCHANGED <<tracks, try_read_tags, idx, output, calls, spotify_tracks, pos,
                   outcome, exit_code, uncaught, q_title, q_results, f_name, f_guess>>

NextResolve == Resolve

SpecResolve == InitResolve /\ [][NextResolve]_vars

(* --------------------- the filename heuristic alone -------------------- *)

PathChars == {"a", "b", "-", " ", ".", "/"}

InitGuess ==
    /\ pc = "guess"
    /\ tracks = <<>> /\ try_read_tags = FALSE /\ idx = 1 /\ output = <<>>
    /\ calls = <<>> /\ spotify_tracks = <<>> /\ pos = 0 /\ outcome = ""
    /\ exit_code = -1 /\ uncaught = ""
    /\ q_title = <<>> /\ q_results = <<>> /\ q_answer = None
    /\ f_name \in SeqsUpTo(PathChars, MaxNameLen)
    /\ f_guess = None

\* guess_missing_track_info applied to one file name
Guess ==
    /\ pc = "guess"
    /\ pc' = "guessed"
    /\ f_guess' = Some(guess_missing_track_info(f_name))
    /\ UNCHANGED <<tracks, try_read_tags, idx, output, calls, spotify_tracks, pos,
                   outcome, exit_code, uncaught, q_title, q_results, q_answer, f_name>>

NextGuess == Guess

SpecGuess == InitGuess /\ [][NextGuess]_vars

(* -------------------------- the publish phase -------------------------- *)

\* the ids matched by a library export of n tracks: all different, or cycling
IdLists ==
    {[k \in 1..n |-> k] : n \in 1..MaxIds}
    \cup {[k \in 1..n |-> (k % 3) + 1] : n \in 1..MaxIds}

MatchedTrack(id) ==
    [path |-> None, artist |-> Some(<<"a">>), name |-> Some(<<"a">>),
     source |-> "itunes",
     spotify_data |-> Some([found |-> TRUE, id |-> id, name |-> <<"a">>,
                            artist |-> <<"x">>])]

\* the run at line 213, after every track of a library export was matched
InitPublish ==
    /\ pc = "token"
    /\ \E ids \in IdLists :
          /\ tracks = [k \in 1..Len(ids) |-> MatchedTrack(ids[k])]
          /\ spotify_tracks = ids
    /\ try_read_tags = FALSE
    /\ idx = Len(tracks) + 1
    /\ output = [k \in 1..Len(tracks) |-> format_track_info(k, tracks[k]).block[1]]
    /\ calls = [k \in 1..Len(tracks) |-> Call("search", k, <<"a", " ", "a">>, <<>>)]
    /\ pos = 0
    /\ outcome = ""
    /\ exit_code = -1
    /\ uncaught = ""
    /\ Idle

NextPublish ==
    \/ PromptForUserToken
    \/ CreatePlaylist
    \/ AddTracks

SpecPublish == InitPublish /\ [][NextPublish]_vars

(* ------------------------------- properties ---------------------------- *)

\* similarity of the query title to the k-th result of the resolver under test
Sim(k) == how_similar(q_title, q_results[k].name)

PerfectAt(k) == Sim(k)[1] = Sim(k)[2]

\* the k-th result is the one the resolver returned
Returned(k) ==
    /\ q_answer[1].found
    /\ q_answer[1].id = q_results[k].id
    /\ q_answer[1].name = q_results[k].name

\* C1: when some result has similarity exactly 1.0 to the query title, the
\* resolver returns the first such result in catalog order, wherever it stands
\* and whatever the similarity of the other results.
C1_FirstPerfectReturned ==
    q_answer # None =>
        \A k \in 1..Len(q_results) :
            (PerfectAt(k) /\ \A m \in 1..(k - 1) : ~PerfectAt(m)) => Returned(k)

\* a perfect result in second place, behind a result above the threshold
C1_Witness ==
    /\ q_answer # None
    /\ Len(q_results) >= 2
    /\ PerfectAt(2)
    /\ ~PerfectAt(1)
    /\ 2 * Sim(1)[1] > Sim(1)[2]
    /\ Returned(2)

\* no result is more similar than the k-th, and no earlier one is as similar
BestAt(k) ==
    /\ \A m \in 1..Len(q_results) : Sim(m)[1] * Sim(k)[2] <= Sim(k)[1] * Sim(m)[2]
    /\ \A m \in 1..(k - 1) : Sim(m)[1] * Sim(k)[2] < Sim(k)[1] * Sim(m)[2]

\* C2: when no result has similarity 1.0, the resolver returns the result of
\* maximal similarity (the earliest of several) if and only if that similarity
\* is strictly greater than 0.5; with a best similarity of 0.5 or less, or with
\* no results, it returns no match.
C2_BestAboveThreshold ==
    (q_answer # None /\ \A k \in 1..Len(q_results) : ~PerfectAt(k)) =>
        /\ Len(q_results) = 0 => ~q_answer[1].found
        /\ \A k \in 1..Len(q_results) :
              BestAt(k) => IF 2 * Sim(k)[1] > Sim(k)[2]
                           THEN Returned(k)
                           ELSE ~q_answer[1].found

\* the best similarity is exactly 0.5 and nothing is returned
C2_Witness ==
    /\ q_answer # None
    /\ \E k \in 1..Len(q_results) : BestAt(k) /\ 2 * Sim(k)[1] = Sim(k)[2]
    /\ ~q_answer[1].found

\* the remote publish calls issued so far, in order
IsPublishCall(c) == c.op \in {"create", "add"}

PublishCalls(cs) == SelectSeq(cs, IsPublishCall)

RECURSIVE Concat(_)
Concat(cs) == IF cs = <<>> THEN <<>> ELSE Head(cs).ids \o Concat(Tail(cs))

IsPrefix(x, y) == Len(x) <= Len(y) /\ x = SubSeq(y, 1, Len(x))

\* C3: for a non-empty list of matched ids and a publish phase without remote
\* failure, exactly one playlist is created, then the ids are added in batches
\* of 1 to 100 ids whose concatenation, in the order issued, is the list; 150
\* ids go in two batches of 100 and 50.
C3_BatchesCoverList ==
    LET pub  == PublishCalls(calls)
        adds == IF pub = <<>> THEN <<>> ELSE Tail(pub)
    IN  /\ pub # <<>> => Head(pub).op = "create"
        /\ \A k \in 1..Len(adds) :
              /\ adds[k].op = "add"
              /\ Len(adds[k].ids) >= 1
              /\ Len(adds[k].ids) <= 100
        /\ IsPrefix(Concat(adds), spotify_tracks)
        /\ outcome = "done" =>
              /\ pub # <<>>
              /\ Concat(adds) = spotify_tracks
              /\ Len(spotify_tracks) = 150 =>
                    /\ Len(adds) = 2
                    /\ Len(adds[1].ids) = 100
                    /\ Len(adds[2].ids) = 50

\* 150 ids published in full
C3_Witness ==
    /\ outcome = "done"
    /\ Len(spotify_tracks) = 150
    /\ Len(PublishCalls(calls)) = 3

HasMatch(t) == t.spotify_data # None /\ t.spotify_data[1].found

PublishIssued == \E k \in 1..Len(calls) : calls[k].op \in {"token", "create", "add"}

\* the loop over the tracks has been left normally
PastLoop ==
    \/ pc \in {"token", "create", "add"}
    \/ pc = "exit" /\ outcome \in {"no_match", "no_token", "spotify_error", "done"}

\* C4: in a run in which no track obtains a match, no user token is requested,
\* no playlist is created and no tracks are added; once the pass over the
\* tracks is complete the run reports that nothing matched.
C4_NoMatchNoPublish ==
    (\A k \in 1..Len(tracks) : ~HasMatch(tracks[k])) =>
        /\ ~PublishIssued
        /\ PastLoop => (pc = "exit" /\ outcome = "no_match")

\* a run that searched for a track, matched nothing and reported it
C4_Witness ==
    /\ pc = "exit"
    /\ outcome = "no_match"
    /\ Len(tracks) >= 1
    /\ \E k \in 1..Len(calls) : calls[k].op = "search"
    /\ ~PublishIssued

\* C5: the exit status is 1 after an unsupported extension, a fatal parse
\* error, missing credentials and zero matches, and 0 after a playlist was
\* created.
C5_ExitCodes ==
    pc = "exit" =>
        /\ outcome \in {"unsupported", "parse_error", "missing_config", "no_match"}
              => exit_code = 1
        /\ outcome = "done" => exit_code = 0

\* C6: a failed search leaves its track without a match and the run goes on
\* with the remaining tracks; it never ends the run.
C6_SearchFailureContinues ==
    /\ uncaught # "SpotifyException"
    /\ \A k \in 1..Len(calls) :
          calls[k].op = "search" => tracks[calls[k].track].spotify_data # None

SearchesFor(k) == {c \in 1..Len(calls) : calls[c].op = "search" /\ calls[c].track = k}

\* C7: a track with tag metadata and a filename guess is searched by its tag
\* metadata first and, when that finds nothing, by its filename guess; it is
\* left without a match only after both searches failed.
C7_TwoAttempts ==
    \A k \in 1..Len(tracks) :
        (/\ tracks[k].source = "id3"
         /\ tracks[k].artist[1] # <<>>
         /\ tracks[k].name[1] # <<>>
         /\ guess_missing_track_info(tracks[k].path[1]).found
         /\ tracks[k].spotify_data # None
         /\ ~tracks[k].spotify_data[1].found)
        => Cardinality(SearchesFor(k)) = 2

\* C8: every track gets exactly one block, in track order, whether it was
\* matched, searched without a match, or left without artist and title; a
\* track left without artist and title is not searched and does not end the
\* run.
C8_OneBlockPerTrack ==
    /\ \A j \in 1..Len(output) : output[j].track = j
    /\ \A k \in 1..Len(tracks) :
          tracks[k].spotify_data # None => (k <= Len(output) /\ uncaught = "")
    /\ \A k \in 1..Len(tracks) :
          (tracks[k].artist = None \/ tracks[k].name = None) => SearchesFor(k) = {}

\* C9: a track gets source id3 only when the tag read gave a non-empty artist
\* and a non-empty title; after any other outcome of the tag read the filename
\* heuristic is applied and no error of the tag read ends the run.
C9_TagReadFallback ==
    /\ uncaught # "AttributeError"
    /\ \A k \in 1..Len(tracks) :
          tracks[k].source = "id3" =>
              (tracks[k].artist[1] # <<>> /\ tracks[k].name[1] # <<>>)

\* the base name of the file under test, without its extension
Stem == splitext(basename(f_name))[1]

FirstDash == find(Stem, "-", 1)

\* C10: the heuristic splits the base name without its extension at its first
\* '-': the artist is the trimmed text before it and the title the trimmed
\* whole remainder after it; a base name without '-' gives no guess.
C10_SplitAtFirstDash ==
    f_guess # None =>
        IF FirstDash = 0 THEN ~f_guess[1].found
        ELSE /\ f_guess[1].found
             /\ f_guess[1].artist = strip(SubSeq(Stem, 1, FirstDash - 1))
             /\ f_guess[1].name = strip(SubSeq(Stem, FirstDash + 1, Len(Stem)))

====
